---- MODULE Spec2Model ----
(***************************************************************************)
(* Model of the option pricing library:                                    *)
(*   src/binomial_pricing.py     price_option (CRR binomial lattice)       *)
(*   src/monte_carlo_pricing.py  build_payoff, monte_carlo_price           *)
(*                                                                         *)
(* A caller makes one library call at a time (the code is synchronous and  *)
(* keeps no module-level state).  fn names the function being executed, pc *)
(* the position inside it, outcome how the call ended: "ok", or the error  *)
(* it raised.  The code raises ValueError with distinct messages; the      *)
(* model names each by the error kind the specification gives it, and      *)
(* Python's own exceptions (ZeroDivisionError, NameError, ...) by their    *)
(* Python names.                                                           *)
(*                                                                         *)
(* Python floats are modelled as fixed-point numbers: the integer n stands *)
(* for the real n / Scale, and every operation rounds its result down to   *)
(* the grid, as a float operation rounds to the nearest float.             *)
(***************************************************************************)
EXTENDS Integers, Sequences, FiniteSets, TLC

VARIABLES fn, pc, outcome,
          model, option, steps, lat, result,
          spec, payoff, paths, seed, mc,
          expression, code, call,
          prev

vars == <<fn, pc, outcome, model, option, steps, lat, result,
          spec, payoff, paths, seed, mc, expression, code, call, prev>>

(* ------------------------------ bounds -------------------------------- *)

\* Resolution of the fixed-point reals: n stands for n / Scale.
Scale == 1024
\* Largest lattice step count / Monte Carlo steps per path the caller passes.
MaxSteps == 3
\* Largest Monte Carlo path count the caller passes.
MaxPaths == 2
\* Largest nesting depth of a payoff formula.
MaxDepth == 2

\* Python's None where a string stands for the value; an optional int is a
\* sequence of at most one element.
None == "None"

(* ----------------------- float arithmetic ----------------------------- *)

FromInt(n) == n * Scale

\* The float literal num/den.
Frac(num, den) == (num * Scale) \div den

FMul(a, b) == (a * b) \div Scale

\* a / b for b # 0; Python raises ZeroDivisionError at b = 0, which every
\* caller below tests before dividing.
FDiv(a, b) == (a * Scale) \div b

FMax(a, b) == IF a >= b THEN a ELSE b

RECURSIVE SqrtSearch(_, _, _)
SqrtSearch(lo, hi, y) ==
    IF lo >= hi THEN lo
    ELSE LET mid == (lo + hi + 1) \div 2
         IN IF mid * mid <= y THEN SqrtSearch(mid, hi, y)
            ELSE SqrtSearch(lo, mid - 1, y)

\* math.sqrt(x) for x >= 0.
Sqrt(x) == SqrtSearch(0, x + Scale, x * Scale)

RECURSIVE ExpSeries(_, _, _, _)
ExpSeries(x, n, term, acc) ==
    IF term = 0 THEN acc
    ELSE LET t == (term * x) \div (Scale * n)
         IN ExpSeries(x, n + 1, t, acc + t)

\* math.exp(x): the power series for x >= 0, its reciprocal for x < 0.
Exp(x) ==
    IF x >= 0 THEN ExpSeries(x, 1, Scale, Scale)
    ELSE FDiv(Scale, ExpSeries(-x, 1, Scale, Scale))

\* base ** n for an int n >= 0.
RECURSIVE FPow(_, _)
FPow(base, n) == IF n <= 0 THEN Scale ELSE FMul(FPow(base, n - 1), base)

Reverse(s) == [i \in 1..Len(s) |-> s[Len(s) + 1 - i]]

RECURSIVE SumSeq(_)
SumSeq(s) == IF s = <<>> THEN 0 ELSE s[1] + SumSeq(Tail(s))

(* --------------------- binomial_pricing.py ---------------------------- *)

\* str.lower() on the kind strings the caller passes.
Lower(kind) ==
    CASE kind = "Call" -> "call"
      [] kind = "PUT" -> "put"
      [] OTHER -> kind

KindValid(kind) == Lower(kind) \in {"call", "put"}

\* OptionSpec.payoff for a valid kind.
Payoff(opt, s) ==
    IF Lower(opt.kind) = "call" THEN FMax(s - opt.strike, 0)
    ELSE FMax(opt.strike - s, 0)

_up_down(volatility, dt) ==
    LET u == Exp(FMul(volatility, Sqrt(dt)))
    IN [u |-> u, d |-> FDiv(Scale, u)]

\* Variant: the bounds 0 and 1 themselves are refused.
_risk_neutral_prob_strict(rate, dividend_yield, dt, u, d) ==
    IF u = d THEN [err |-> "ZeroDivisionError", p |-> 0]
    ELSE LET p == FDiv(Exp(FMul(rate - dividend_yield, dt)) - d, u - d)
         IN IF ~(0 < p /\ p < Scale)
            THEN [err |-> "InvalidRiskNeutralProbability", p |-> p]
            ELSE [err |-> "none", p |-> p]

_risk_neutral_prob(rate, dividend_yield, dt, u, d) ==
    IF u = d THEN [err |-> "ZeroDivisionError", p |-> 0]
    ELSE LET discounted_growth == Exp(FMul(rate - dividend_yield, dt))
             p == FDiv(discounted_growth - d, u - d)
         IN IF ~(0 <= p /\ p <= Scale)
            THEN [err |-> "InvalidRiskNeutralProbability", p |-> p]
            ELSE [err |-> "none", p |-> p]

\* Variant: a step count of 0 passes the check.
StepsInvalidOffByOne(n) == n < 0

\* "if steps <= 0" of price_option and monte_carlo_price.
StepsInvalid(n) == n <= 0

\* terminal_spots: entry j+1 is the price after j up-moves out of n.
TerminalSpots(m, n, u, d) ==
    [i \in 1..(n + 1) |->
        FMul(FMul(m.spot, FPow(u, i - 1)), FPow(d, n - (i - 1)))]

\* Variant: no early exercise.
NodeValueNoExercise(m, opt, u, d, p, discount, values, step, j) ==
    FMul(discount, FMul(p, values[j + 2]) + FMul(Scale - p, values[j + 1]))

\* Variant: the smaller of continuation and exercise value.
NodeValueMin(m, opt, u, d, p, discount, values, step, j) ==
    LET continuation ==
            FMul(discount, FMul(p, values[j + 2]) + FMul(Scale - p, values[j + 1]))
        exercise == Payoff(opt, FMul(FMul(m.spot, FPow(u, j)), FPow(d, step - j)))
    IN IF opt.american
       THEN (IF continuation <= exercise THEN continuation ELSE exercise)
       ELSE continuation

\* The body of the inner loop: the value of node (step, j) from the row below.
NodeValue(m, opt, u, d, p, discount, values, step, j) ==
    LET continuation ==
            FMul(discount, FMul(p, values[j + 2]) + FMul(Scale - p, values[j + 1]))
    IN IF opt.american
       THEN LET s == FMul(FMul(m.spot, FPow(u, j)), FPow(d, step - j))
                exercise == Payoff(opt, s)
            IN FMax(continuation, exercise)
       ELSE continuation

\* One pass of the outer loop: next_values for row `step`.
InductRow(m, opt, u, d, p, discount, values, step) ==
    [i \in 1..(step + 1) |-> NodeValue(m, opt, u, d, p, discount, values, step, i - 1)]

\* The outer loop from row `step` down to the root.
RECURSIVE Backward(_, _, _, _, _, _, _, _)
Backward(m, opt, u, d, p, discount, values, step) ==
    IF step < 0 THEN values
    ELSE Backward(m, opt, u, d, p, discount,
                  InductRow(m, opt, u, d, p, discount, values, step), step - 1)

\* Variant: the tree as the loop built it, terminal row first.
TreeAsBuilt(tree) == tree

\* tree.reverse(): root at index 0.
TreeReturned(tree) == Reverse(tree)

\* price_option from line 78 on, for steps > 0 and a valid kind: the price.
PriceOf(m, opt, n) ==
    LET dt == FDiv(opt.maturity, FromInt(n))
        ud == _up_down(m.volatility, dt)
        rp == _risk_neutral_prob(m.rate, opt.dividend_yield, dt, ud.u, ud.d)
        discount == Exp(FMul(-m.rate, dt))
        terminal == [i \in 1..(n + 1) |-> Payoff(opt, TerminalSpots(m, n, ud.u, ud.d)[i])]
    IN Backward(m, opt, ud.u, ud.d, rp.p, discount, terminal, n - 1)[1]

(* inputs of price_option *)
Models ==
    [spot : {FromInt(2), FromInt(3)},
     rate : {Frac(-50, 100), 0, Frac(20, 100)},
     volatility : {0, Frac(1, 100), Frac(20, 100)}]

Options ==
    [kind : {"call", "PUT", "straddle"},
     strike : {FromInt(2), FromInt(3)},
     maturity : {FromInt(1), FromInt(2)},
     american : BOOLEAN,
     dividend_yield : {0, Frac(5, 100)}]

NoModel == [spot |-> 0, rate |-> 0, volatility |-> 0]
NoOption == [kind |-> "", strike |-> 0, maturity |-> 0, american |-> FALSE,
             dividend_yield |-> 0]
NoLat == [dt |-> 0, u |-> 0, d |-> 0, p |-> 0, discount |-> 0,
          option_values |-> <<>>, tree |-> <<>>, step |-> 0, nodes |-> 0]
NoResult == [price |-> 0, tree |-> <<>>]

Idle == pc = "idle"

PriceBegin ==
    /\ Idle
    /\ fn' = "price_option"
    /\ pc' = "entry"
    /\ outcome' = "none"
    /\ model' \in Models
    /\ option' \in Options
    /\ steps' \in -1..MaxSteps
    /\ lat' = NoLat
    /\ result' = NoResult
    /\ UNCHANGED <<spec, payoff, paths, seed, mc, expression, code, call, prev>>

PriceRaise(err) ==
    /\ pc' = "done"
    /\ outcome' = err
    /\ UNCHANGED <<fn, model, option, steps, lat, result,
                   spec, payoff, paths, seed, mc, expression, code, call, prev>>

\* Lines 75-80: the step check, dt, u, d and the risk-neutral probability.
PriceEntry ==
    /\ fn = "price_option" /\ pc = "entry"
    /\ IF StepsInvalid(steps) THEN PriceRaise("InvalidStepCount")
       ELSE IF steps = 0 THEN PriceRaise("ZeroDivisionError")
       ELSE LET dt == FDiv(option.maturity, FromInt(steps))
                ud == _up_down(model.volatility, dt)
                rp == _risk_neutral_prob(model.rate, option.dividend_yield, dt, ud.u, ud.d)
            IN IF rp.err # "none" THEN PriceRaise(rp.err)
               ELSE /\ lat' = [lat EXCEPT !.dt = dt, !.u = ud.u, !.d = ud.d, !.p = rp.p]
                    /\ pc' = "terminal"
                    /\ UNCHANGED <<fn, outcome, model, option, steps, result,
                                   spec, payoff, paths, seed, mc, expression, code,
                                   call, prev>>

\* Lines 83-87: terminal prices, terminal payoffs, the first row, the discount.
PriceTerminal ==
    /\ fn = "price_option" /\ pc = "terminal"
    /\ IF ~KindValid(option.kind) THEN PriceRaise("InvalidContract")
       ELSE LET terminal_spots == TerminalSpots(model, steps, lat.u, lat.d)
                option_values == [i \in 1..Len(terminal_spots) |->
                                     Payoff(option, terminal_spots[i])]
            IN /\ lat' = [lat EXCEPT !.option_values = option_values,
                                     !.tree = <<option_values>>,
                                     !.discount = Exp(FMul(-model.rate, lat.dt)),
                                     !.step = steps - 1,
                                     !.nodes = Len(option_values)]
               /\ pc' = "induct"
               /\ UNCHANGED <<fn, outcome, model, option, steps, result,
                              spec, payoff, paths, seed, mc, expression, code,
                              call, prev>>

\* Lines 89-100: one pass of the outer loop.
PriceStep ==
    /\ fn = "price_option" /\ pc = "induct" /\ lat.step >= 0
    /\ LET next_values == InductRow(model, option, lat.u, lat.d, lat.p, lat.discount,
                                    lat.option_values, lat.step)
       IN lat' = [lat EXCEPT !.option_values = next_values,
                             !.tree = Append(@, next_values),
                             !.step = @ - 1,
                             !.nodes = @ + Len(next_values)]
    /\ UNCHANGED <<fn, pc, outcome, model, option, steps, result,
                   spec, payoff, paths, seed, mc, expression, code, call, prev>>

\* Lines 102-103: reverse the tree and return.
PriceReturn ==
    /\ fn = "price_option" /\ pc = "induct" /\ lat.step < 0
    /\ result' = [price |-> lat.option_values[1], tree |-> TreeReturned(lat.tree)]
    /\ pc' = "done"
    /\ outcome' = "ok"
    /\ UNCHANGED <<fn, model, option, steps, lat,
                   spec, payoff, paths, seed, mc, expression, code, call, prev>>

(* -------------------- monte_carlo_pricing.py -------------------------- *)

\* random.Random: a generator state is one of RngStates; the generator is a
\* full-period linear congruential generator over them.
RngStates == 0..7

\* What the operating system's entropy source may hand an unseeded generator.
Entropy == {3, 5}

\* Variant: the seed is ignored.
NewRngUnseeded(sd, entropy) == entropy

\* random.Random(seed): the seed fixes the state; without one the state
\* comes from the entropy source.
NewRng(sd, entropy) == IF sd = <<>> THEN entropy ELSE sd[1] % Cardinality(RngStates)

RngNext(state) == (5 * state + 3) % Cardinality(RngStates)

\* The value rng.gauss(0.0, 1.0) returns in generator state `state`.
Gauss(state) == FromInt((state % 3) - 1)

\* The payoff functions the caller passes: the two of the tests, with the
\* strike scaled to the spots of MCSpecs.
MCStrike == FromInt(2)

PayoffFuncs == {"call", "asian"}

\* payoff(price, path_values)
ApplyPayoff(f, s, path) ==
    IF f = "call" THEN FMax(s - MCStrike, 0)
    ELSE FMax(FDiv(SumSeq(path), FromInt(Len(path))) - MCStrike, 0)

\* "if paths <= 0"
PathsInvalid(n) == n <= 0

\* "if steps <= 0" of monte_carlo_price
MCStepsInvalid(n) == n <= 0

\* Variant: the path without the initial price.
PathStartEmpty(price) == <<>>

\* path_values = [price]
PathStart(price) == <<price>>

\* statistics.fmean
FMean(xs) == FDiv(SumSeq(xs), FromInt(Len(xs)))

\* statistics.pstdev: the population standard deviation.
PStdev(xs) ==
    LET mean == FMean(xs)
        sq == [i \in 1..Len(xs) |-> FMul(xs[i] - mean, xs[i] - mean)]
    IN Sqrt(FDiv(SumSeq(sq), FromInt(Len(xs))))

\* Lines 114-121.
Aggregate(discounted_payoffs, n) ==
    [price |-> FMean(discounted_payoffs),
     standard_error |-> IF n > 1
                        THEN FDiv(PStdev(discounted_payoffs), Sqrt(FromInt(n)))
                        ELSE 0,
     paths |-> n]

MCSpecs ==
    [spot : {FromInt(2), FromInt(3)},
     rate : {0, Frac(5, 100)},
     volatility : {Frac(20, 100)},
     maturity : {FromInt(1)},
     dividend_yield : {0}]

Seeds == {<<>>, <<1>>, <<2>>}

NoSpec == [spot |-> 0, rate |-> 0, volatility |-> 0, maturity |-> 0,
           dividend_yield |-> 0]
NoMC == [rng |-> 0, dt |-> 0, drift |-> 0, vol_step |-> 0, discount_factor |-> 0,
         discounted_payoffs |-> <<>>, price |-> 0, path_values |-> <<>>, k |-> 0,
         draws |-> <<>>, calls |-> <<>>]
NoMCResult == [price |-> 0, standard_error |-> 0, paths |-> 0]

MCBegin ==
    /\ Idle
    /\ fn' = "monte_carlo_price"
    /\ pc' = "entry"
    /\ outcome' = "none"
    /\ spec' \in MCSpecs
    /\ payoff' \in PayoffFuncs
    /\ paths' \in -1..MaxPaths
    /\ steps' \in -1..MaxSteps
    /\ seed' \in Seeds
    /\ mc' = NoMC
    /\ result' = NoMCResult
    /\ UNCHANGED <<model, option, lat, expression, code, call, prev>>

MCRaise(err) ==
    /\ pc' = "done"
    /\ outcome' = err
    /\ UNCHANGED <<fn, model, option, steps, lat, result,
                   spec, payoff, paths, seed, mc, expression, code, call, prev>>

\* Lines 90-105: the checks, the generator, the per-step constants and the
\* start of the first path.
MCEntry ==
    /\ fn = "monte_carlo_price" /\ pc = "entry"
    /\ IF PathsInvalid(paths) THEN MCRaise("InvalidPathCount")
       ELSE IF MCStepsInvalid(steps) THEN MCRaise("InvalidStepCount")
       ELSE IF steps = 0 THEN MCRaise("ZeroDivisionError")
       ELSE \E entropy \in Entropy :
            LET dt == FDiv(spec.maturity, FromInt(steps))
                half == Frac(1, 2)
                vol2 == FMul(spec.volatility, spec.volatility)
            IN /\ mc' = [mc EXCEPT
                     !.rng = NewRng(seed, entropy),
                     !.dt = dt,
                     !.drift = FMul(spec.rate - spec.dividend_yield - FMul(half, vol2), dt),
                     !.vol_step = FMul(spec.volatility, Sqrt(dt)),
                     !.discount_factor = Exp(FMul(-spec.rate, spec.maturity)),
                     !.price = spec.spot,
                     !.path_values = PathStart(spec.spot),
                     !.k = 0]
               /\ pc' = "path"
               /\ UNCHANGED <<fn, outcome, model, option, steps, lat, result,
                              spec, payoff, paths, seed, expression, code, call, prev>>

\* Lines 106-109: one pass of the inner loop.
MCDraw ==
    /\ fn = "monte_carlo_price" /\ pc = "path" /\ mc.k < steps
    /\ LET rng == RngNext(mc.rng)
           z == Gauss(rng)
           price == FMul(mc.price, Exp(mc.drift + FMul(mc.vol_step, z)))
       IN mc' = [mc EXCEPT !.rng = rng,
                           !.price = price,
                           !.path_values = Append(@, price),
                           !.k = @ + 1,
                           !.draws = Append(@, z)]
    /\ UNCHANGED <<fn, pc, outcome, model, option, steps, lat, result,
                   spec, payoff, paths, seed, expression, code, call, prev>>

\* Lines 111-112, then lines 104-105 of the next pass of the outer loop.
MCPayoff ==
    /\ fn = "monte_carlo_price" /\ pc = "path" /\ mc.k >= steps
    /\ LET discounted_payoff ==
               FMul(mc.discount_factor, ApplyPayoff(payoff, mc.price, mc.path_values))
           discounted_payoffs == Append(mc.discounted_payoffs, discounted_payoff)
           calls == Append(mc.calls, [s |-> mc.price, path |-> mc.path_values,
                                      draws |-> mc.k])
       IN IF Len(discounted_payoffs) < paths
          THEN /\ mc' = [mc EXCEPT !.discounted_payoffs = discounted_payoffs,
                                   !.calls = calls,
                                   !.price = spec.spot,
                                   !.path_values = PathStart(spec.spot),
                                   !.k = 0]
               /\ pc' = "path"
          ELSE /\ mc' = [mc EXCEPT !.discounted_payoffs = discounted_payoffs,
                                   !.calls = calls]
               /\ pc' = "aggregate"
    /\ UNCHANGED <<fn, outcome, model, option, steps, lat, result,
                   spec, payoff, paths, seed, expression, code, call, prev>>

\* Lines 114-121: mean, standard error, the result.
MCAggregate ==
    /\ fn = "monte_carlo_price" /\ pc = "aggregate"
    /\ result' = Aggregate(mc.discounted_payoffs, paths)
    /\ pc' = "done"
    /\ outcome' = "ok"
    /\ UNCHANGED <<fn, model, option, steps, lat,
                   spec, payoff, paths, seed, mc, expression, code, call, prev>>

\* An observer notes a finished seeded call, to compare a later one with it.
Remember ==
    /\ fn = "monte_carlo_price" /\ pc = "done" /\ outcome = "ok" /\ seed # <<>>
    /\ prev' = <<[spec |-> spec, payoff |-> payoff, paths |-> paths, steps |-> steps,
                  seed |-> seed, result |-> result, draws |-> mc.draws]>>
    /\ UNCHANGED <<fn, pc, outcome, model, option, steps, lat, result,
                   spec, payoff, paths, seed, mc, expression, code, call>>

(* ----------------------- build_payoff --------------------------------- *)

\* A formula is its text class and, when the text parses, its syntax tree.
\* A tree node is [k, name, n, args]: the node kind, the identifier,
\* attribute name or string literal, the number literal, the children.
Node(k, name, n, args) == [k |-> k, name |-> name, n |-> n, args |-> args]
Num(n) == Node("Num", "", n, <<>>)
Str(t) == Node("Str", t, 0, <<>>)
Const(c) == Node("Const", c, 0, <<>>)
Name(id) == Node("Name", id, 0, <<>>)
Attribute(e, a) == Node("Attribute", a, 0, <<e>>)
Call(f, a) == Node("Call", "", 0, <<f, a>>)

\* A Python value is [t, n, name, items]: its type, its number, its name or
\* text, its elements.
Val(t, n, name, items) == [t |-> t, n |-> n, name |-> name, items |-> items]
NumVal(n) == Val("num", n, "", <<>>)
StrVal(t) == Val("str", 0, t, <<>>)
BoolVal(b) == Val("bool", IF b THEN 1 ELSE 0, "", <<>>)
NoneVal == Val("NoneType", 0, "", <<>>)
ListVal(xs) == Val("list", 0, "", xs)
DictVal == Val("dict", 0, "", <<>>)
Builtin(name) == Val("builtin", 0, name, <<>>)
Module(name) == Val("module", 0, name, <<>>)
Type(name) == Val("type", 0, name, <<>>)

\* The result of evaluating a node: the exception raised ("" for none), the
\* value, and whether an object of the hosting process outside the allow-list
\* (a type, the builtins module, an imported module) was reached.
Raised(err, host) == [err |-> err, val |-> NoneVal, host |-> host]
Value(v, host) == [err |-> "", val |-> v, host |-> host]

\* The texts float() parses; the value record's n is the number they denote.
NumericText == {"7", "float repr"}

\* allowed_globals, lines 55-63.
AllowedFunctions == {"max", "min", "abs", "sum", "len"}

\* Name lookup in eval(code, allowed_globals, {"s": s, "path": path}): the
\* locals, then the globals, then the emptied __builtins__.
Lookup(id, s, path) ==
    CASE id = "s" -> Value(NumVal(s), FALSE)
      [] id = "path" -> Value(ListVal(path), FALSE)
      [] id = "math" -> Value(Module("math"), FALSE)
      [] id \in AllowedFunctions -> Value(Builtin(id), FALSE)
      [] id = "__builtins__" -> Value(DictVal, FALSE)
      [] OTHER -> Raised("NameError", FALSE)

\* type(v).__name__
TypeName(v) ==
    CASE v.t = "num" -> "float"
      [] v.t = "builtin" -> "builtin_function_or_method"
      [] OTHER -> v.t

\* getattr(v, a): eval puts no restriction on attribute access.  Every
\* object has __class__; a builtin function's __self__ is the builtins
\* module, whose __import__ is the import function.
GetAttr(v, a) ==
    CASE a = "__class__" -> Value(Type(TypeName(v)), TRUE)
      [] a = "__self__" /\ v.t = "builtin" -> Value(Module("builtins"), TRUE)
      [] a = "__import__" /\ v.t = "module" /\ v.name = "builtins" ->
            Value(Builtin("__import__"), TRUE)
      [] a = "pi" /\ v.t = "module" /\ v.name = "math" ->
            Value(NumVal(Frac(314, 100)), FALSE)
      [] OTHER -> Raised("AttributeError", FALSE)

RECURSIVE MaxOf(_)
MaxOf(xs) == IF Len(xs) = 1 THEN xs[1] ELSE FMax(xs[1], MaxOf(Tail(xs)))

MinOf(xs) == -MaxOf([i \in 1..Len(xs) |-> -xs[i]])

\* bool(v)
Truthy(v) ==
    CASE v.t \in {"num", "bool"} -> v.n # 0
      [] v.t = "str" -> v.name # ""
      [] v.t = "list" -> v.items # <<>>
      [] v.t \in {"NoneType", "dict"} -> FALSE
      [] OTHER -> TRUE

\* A call of one of the allow-listed functions or of __import__.
ApplyBuiltin(name, a) ==
    CASE name = "abs" /\ a.t \in {"num", "bool"} ->
            Value(NumVal(IF a.n < 0 THEN -a.n ELSE a.n), FALSE)
      [] name = "len" /\ a.t = "list" -> Value(NumVal(FromInt(Len(a.items))), FALSE)
      [] name = "len" /\ a.t = "str" /\ a.name = "os" -> Value(NumVal(FromInt(2)), FALSE)
      [] name = "sum" /\ a.t = "list" -> Value(NumVal(SumSeq(a.items)), FALSE)
      [] name = "max" /\ a.t = "list" /\ a.items # <<>> ->
            Value(NumVal(MaxOf(a.items)), FALSE)
      [] name = "min" /\ a.t = "list" /\ a.items # <<>> ->
            Value(NumVal(MinOf(a.items)), FALSE)
      [] name = "max" /\ a.t = "str" /\ a.name = "os" -> Value(StrVal("s"), FALSE)
      [] name = "min" /\ a.t = "str" /\ a.name = "os" -> Value(StrVal("o"), FALSE)
      [] name = "__import__" /\ a.t = "str" /\ a.name = "os" -> Value(Module("os"), TRUE)
      [] OTHER -> Raised("TypeError", FALSE)

\* A call of a type object: the constructor.
ApplyType(name, a) ==
    CASE name = "float" /\ a.t = "num" -> Value(a, FALSE)
      [] name = "float" /\ a.t = "str" /\ a.name \in NumericText ->
            Value(NumVal(a.n), FALSE)
      [] name = "float" /\ a.t = "str" -> Raised("ValueError", FALSE)
      [] name = "str" /\ a.t = "str" -> Value(a, FALSE)
      [] name = "str" /\ a.t = "num" -> Value(Val("str", a.n, "float repr", <<>>), FALSE)
      [] name = "str" -> Value(StrVal("repr"), FALSE)
      [] name = "bool" -> Value(BoolVal(Truthy(a)), FALSE)
      [] name = "list" /\ a.t = "list" -> Value(a, FALSE)
      [] name = "list" /\ a.t = "str" -> Value(Val("list", 0, a.name, <<>>), FALSE)
      [] name = "type" -> Value(Type(TypeName(a)), TRUE)
      [] name = "module" /\ a.t = "str" -> Value(Module("new"), TRUE)
      [] name = "dict" /\ a.t = "str" -> Raised("ValueError", FALSE)
      [] OTHER -> Raised("TypeError", FALSE)

\* f(a) for a callee value f and one argument value a.
Apply(f, a) ==
    CASE f.t = "builtin" -> ApplyBuiltin(f.name, a)
      [] f.t = "type" -> ApplyType(f.name, a)
      [] OTHER -> Raised("TypeError", FALSE)

\* eval(code, allowed_globals, locals) on a syntax tree.
RECURSIVE Eval(_, _, _)
Eval(e, s, path) ==
    CASE e.k = "Num" -> Value(NumVal(FromInt(e.n)), FALSE)
      [] e.k = "Str" ->
            Value(IF e.name = "7" THEN Val("str", FromInt(7), "7", <<>>)
                  ELSE StrVal(e.name), FALSE)
      [] e.k = "Const" ->
            Value(IF e.name = "True" THEN BoolVal(TRUE) ELSE NoneVal, FALSE)
      [] e.k = "Name" -> Lookup(e.name, s, path)
      [] e.k = "Attribute" ->
            LET obj == Eval(e.args[1], s, path)
            IN IF obj.err # "" THEN obj
               ELSE LET r == GetAttr(obj.val, e.name)
                    IN [r EXCEPT !.host = @ \/ obj.host]
      [] OTHER ->
            LET f == Eval(e.args[1], s, path)
            IN IF f.err # "" THEN f
               ELSE LET a == Eval(e.args[2], s, path)
                    IN IF a.err # "" THEN [a EXCEPT !.host = @ \/ f.host]
                       ELSE LET r == Apply(f.val, a.val)
                            IN [r EXCEPT !.host = @ \/ f.host \/ a.host]

\* float(value), line 67.
ToFloat(v) ==
    CASE v.t = "num" -> [err |-> "", n |-> v.n]
      [] v.t = "bool" -> [err |-> "", n |-> FromInt(v.n)]
      [] v.t = "str" /\ v.name \in NumericText -> [err |-> "", n |-> v.n]
      [] v.t = "str" -> [err |-> "ValueError", n |-> 0]
      [] OTHER -> [err |-> "TypeError", n |-> 0]

\* The compiled payoff, lines 65-67: what one invocation does.
Invoke(tree, s, path) ==
    LET r == Eval(tree, s, path)
    IN IF r.err # ""
       THEN [err |-> r.err, payoff |-> 0, evaluated |-> FALSE, val |-> r.val,
             host |-> r.host]
       ELSE LET f == ToFloat(r.val)
            IN [err |-> f.err, payoff |-> f.n, evaluated |-> TRUE, val |-> r.val,
                host |-> r.host]

Identifiers == {"s", "path", "max", "len", "math", "open", "__import__", "__builtins__"}
AttributeNames == {"__class__", "__self__", "__import__", "pi"}
Atoms ==
    {Num(3), Str("7"), Str("os"), Const("True"), Const("None")}
        \cup {Name(id) : id \in Identifiers}
Arguments == {Name("s"), Name("path"), Str("os")}

\* The syntax trees of nesting depth at most n.
RECURSIVE Trees(_)
Trees(n) ==
    IF n = 0 THEN Atoms
    ELSE LET sub == Trees(n - 1)
         IN sub \cup {Attribute(e, a) : e \in sub, a \in AttributeNames}
                \cup {Call(f, a) : f \in sub, a \in Arguments}

NoTree == Node("", "", 0, <<>>)

\* The texts a caller passes: empty, blank, unparsable, or a parsable formula.
Formulas ==
    {[text |-> t, tree |-> NoTree] : t \in {"", "  ", "max(s"}}
        \cup {[text |-> "formula", tree |-> e] : e \in Trees(MaxDepth)}

\* expression.strip() is empty.
StripsToEmpty(text) == text \in {"", "  "}

\* compile(expression, "<payoff>", "eval") raises SyntaxError.
ParseFails(text) == text = "max(s"

\* The arguments the returned function is invoked with.
Invocations ==
    {[s |-> FromInt(3), path |-> <<FromInt(2), FromInt(3)>>],
     [s |-> FromInt(1), path |-> <<FromInt(2), FromInt(4), FromInt(1)>>]}

NoFormula == [text |-> None, tree |-> NoTree]
NoCall == [n |-> 0, s |-> 0, path |-> <<>>, err |-> "", payoff |-> 0,
           evaluated |-> FALSE, val |-> NoneVal, host |-> FALSE]

BuildBegin ==
    /\ Idle
    /\ fn' = "build_payoff"
    /\ pc' = "entry"
    /\ outcome' = "none"
    /\ expression' \in Formulas
    /\ code' = NoTree
    /\ call' = NoCall
    /\ UNCHANGED <<model, option, steps, lat, result, spec, payoff, paths, seed, mc,
                   prev>>

\* Lines 50-69: strip, the emptiness check, compile, return the closure.
BuildPayoff ==
    /\ fn = "build_payoff" /\ pc = "entry"
    /\ pc' = "done"
    /\ IF StripsToEmpty(expression.text)
       THEN outcome' = "EmptyExpression" /\ code' = code
       ELSE IF ParseFails(expression.text)
       THEN outcome' = "MalformedExpression" /\ code' = code
       ELSE outcome' = "ok" /\ code' = expression.tree
    /\ UNCHANGED <<fn, model, option, steps, lat, result, spec, payoff, paths, seed, mc,
                   expression, call, prev>>

\* The caller invokes the returned function, lines 65-67.
PayoffCall ==
    /\ fn = "build_payoff" /\ pc = "done" /\ outcome = "ok"
    /\ \E a \in Invocations :
          LET r == Invoke(code, a.s, a.path)
          IN call' = [n |-> 1, s |-> a.s, path |-> a.path, err |-> r.err,
                      payoff |-> r.payoff, evaluated |-> r.evaluated, val |-> r.val,
                      host |-> r.host]
    /\ UNCHANGED <<fn, pc, outcome, model, option, steps, lat, result, spec, payoff,
                   paths, seed, mc, expression, code, prev>>

\* No call in progress: nothing of an earlier call is kept by the library.
Blank ==
    /\ fn = "none" /\ pc = "idle" /\ outcome = "none"
    /\ model = NoModel /\ option = NoOption /\ steps = 0
    /\ lat = NoLat /\ result = NoResult
    /\ spec = NoSpec /\ payoff = None /\ paths = 0 /\ seed = <<>> /\ mc = NoMC
    /\ expression = NoFormula /\ code = NoTree /\ call = NoCall

Init == Blank /\ prev = <<>>

\* The caller has read the result or caught the error and is free to call again.
CallerContinues ==
    /\ pc = "done"
    /\ fn' = "none" /\ pc' = "idle" /\ outcome' = "none"
    /\ model' = NoModel /\ option' = NoOption /\ steps' = 0
    /\ lat' = NoLat /\ result' = NoResult
    /\ spec' = NoSpec /\ payoff' = None /\ paths' = 0 /\ seed' = <<>> /\ mc' = NoMC
    /\ expression' = NoFormula /\ code' = NoTree /\ call' = NoCall
    /\ UNCHANGED prev

Next ==
    \/ PriceBegin
    \/ PriceEntry
    \/ PriceTerminal
    \/ PriceStep
    \/ PriceReturn
    \/ MCBegin
    \/ MCEntry
    \/ MCDraw
    \/ MCPayoff
    \/ MCAggregate
    \/ BuildBegin
    \/ BuildPayoff
    \/ PayoffCall
    \/ CallerContinues

Spec == Init /\ [][Next]_vars

NextDeterminism ==
    \/ MCBegin
    \/ MCEntry
    \/ MCDraw
    \/ MCPayoff
    \/ MCAggregate
    \/ Remember
    \/ CallerContinues

\* Monte Carlo calls one after another, with an observer keeping an earlier
\* seeded call's inputs and outputs.
SpecDeterminism == Init /\ [][NextDeterminism]_vars
(* ------------------------------ claims -------------------------------- *)

LatticeDone == fn = "price_option" /\ pc = "done"
LatticeOk == LatticeDone /\ outcome = "ok"
MCDone == fn = "monte_carlo_price" /\ pc = "done"
MCOk == MCDone /\ outcome = "ok"
Built == fn = "build_payoff" /\ pc = "done"
Invoked == Built /\ outcome = "ok" /\ call.n > 0

\* The identifiers a formula may use: s, path, the five functions and the
\* public names of the math namespace.
Dunder(a) == a \in {"__class__", "__self__", "__import__", "__builtins__"}

RECURSIVE ReferencesOutsideAllowList(_)
ReferencesOutsideAllowList(e) ==
    CASE e.k = "Name" -> e.name \notin ({"s", "path", "math"} \cup AllowedFunctions)
      [] e.k = "Attribute" ->
            \/ ~(e.args[1] = Name("math") /\ ~Dunder(e.name))
            \/ ReferencesOutsideAllowList(e.args[1])
      [] e.k = "Call" ->
            \/ ReferencesOutsideAllowList(e.args[1])
            \/ ReferencesOutsideAllowList(e.args[2])
      [] OTHER -> FALSE

\* C1: a compiled formula that references an identifier outside the
\* allow-list raises on every invocation and never reaches an object of the
\* hosting process.
C1_FailsClosed ==
    (Invoked /\ ReferencesOutsideAllowList(code)) => (call.err # "" /\ ~call.host)

\* The up-probability of the claim, from the inputs of a call with steps > 0
\* and u # d.
DerivedDt == FDiv(option.maturity, FromInt(steps))
DerivedU == Exp(FMul(model.volatility, Sqrt(DerivedDt)))
DerivedD == FDiv(Scale, DerivedU)
DerivedP ==
    FDiv(Exp(FMul(model.rate - option.dividend_yield, DerivedDt)) - DerivedD,
         DerivedU - DerivedD)
PDefined == steps > 0 /\ DerivedU # DerivedD

\* C2: price_option ends with InvalidRiskNeutralProbability, and returns
\* nothing, exactly when p is strictly outside [0, 1]; an accepted p is
\* used as derived (not clamped), and at p = 0 or p = 1 a contract of a
\* valid kind gets its lattice.
C2_ProbabilityRejection ==
    LatticeDone =>
        /\ (outcome = "InvalidRiskNeutralProbability")
              <=> (PDefined /\ (DerivedP < 0 \/ DerivedP > Scale))
        /\ outcome = "InvalidRiskNeutralProbability" => result = NoResult
        /\ outcome = "ok" => lat.p = DerivedP
        /\ (PDefined /\ DerivedP \in {0, Scale} /\ KindValid(option.kind))
              => (outcome = "ok" /\ Len(result.tree) = steps + 1)

\* A call refused because p < 0.
C2_Rejected ==
    LatticeDone /\ outcome = "InvalidRiskNeutralProbability" /\ DerivedP < 0

\* A call accepted at p = 1 exactly.
C2_BoundaryAccepted ==
    LatticeOk /\ DerivedP = Scale

\* C3: the American price is at least the price of the European contract
\* that is identical in every other field.
C3_AmericanAtLeastEuropean ==
    LatticeOk =>
        LET twin == [option EXCEPT !.american = ~@]
            other == PriceOf(model, twin, steps)
        IN IF option.american THEN result.price >= other
           ELSE other >= result.price

\* An American contract priced strictly above its European twin.
C3_PremiumPositive ==
    /\ LatticeOk /\ option.american /\ steps >= 2
    /\ result.price > PriceOf(model, [option EXCEPT !.american = FALSE], steps)

\* C4: the returned lattice has steps+1 rows, root first, row k holds k+1
\* values, the last row is the payoff at the terminal prices and the price
\* is the single value of row 0.
C4_LatticeShape ==
    LatticeOk =>
        /\ Len(result.tree) = steps + 1
        /\ \A k \in 0..steps : Len(result.tree[k + 1]) = k + 1
        /\ \A j \in 0..steps :
              result.tree[steps + 1][j + 1] =
                  Payoff(option, FMul(FMul(model.spot, FPow(lat.u, j)),
                                      FPow(lat.d, steps - j)))
        /\ result.price = result.tree[1][1]

\* The minimal lattice.
C4_TwoRows == LatticeOk /\ steps = 1 /\ Len(result.tree) = 2

\* A lattice of the largest step count, with a positive price.
C4_ManyRows == LatticeOk /\ steps = MaxSteps /\ result.price > 0

\* C5: a step count <= 0, a path count <= 0, an empty and an unparsable
\* formula are each rejected with their error before any lattice node is
\* computed, any generator is made, any draw or payoff invocation happens,
\* and by build_payoff itself rather than by the function it returns.
NoWorkDone == lat = NoLat /\ mc = NoMC /\ code = NoTree /\ call = NoCall

C5_EagerValidation ==
    /\ (LatticeDone /\ steps <= 0) => (outcome = "InvalidStepCount" /\ NoWorkDone)
    /\ (MCDone /\ paths <= 0) => (outcome = "InvalidPathCount" /\ NoWorkDone)
    /\ (MCDone /\ paths > 0 /\ steps <= 0)
          => (outcome = "InvalidStepCount" /\ NoWorkDone)
    /\ (Built /\ StripsToEmpty(expression.text))
          => (outcome = "EmptyExpression" /\ NoWorkDone)
    /\ (Built /\ ~StripsToEmpty(expression.text) /\ ParseFails(expression.text))
          => (outcome = "MalformedExpression" /\ NoWorkDone)
    /\ outcome \in {"InvalidStepCount", "InvalidPathCount", "EmptyExpression",
                    "MalformedExpression"} => NoWorkDone

\* price_option refusing a step count of 0.
C5_ZeroSteps == LatticeDone /\ steps = 0 /\ outcome = "InvalidStepCount"

\* C6: an invocation whose expression evaluates to a value that is not a
\* number is rejected, and a payoff is returned only for a number.
C6_NonNumericRejected ==
    (Invoked /\ call.evaluated /\ call.val.t # "num") => call.err # ""

\* C7: a seeded call that repeats the inputs of an earlier seeded call
\* consumes the same draws in the same order and returns the same result.
SameInputs(r) ==
    /\ r.spec = spec /\ r.payoff = payoff /\ r.paths = paths /\ r.steps = steps
    /\ r.seed = seed

C7_SeededRunsAgree ==
    (MCOk /\ seed # <<>> /\ prev # <<>> /\ SameInputs(prev[1]))
        => (prev[1].result = result /\ prev[1].draws = mc.draws)

\* A seeded call repeating a remembered one, with payoffs that vary by path.
C7_Repeated ==
    /\ MCOk /\ seed # <<>> /\ prev # <<>> /\ SameInputs(prev[1])
    /\ paths = MaxPaths /\ result.standard_error > 0

\* C8: the payoff is invoked once per path, each path takes `steps` draws,
\* each invocation gets steps+1 prices from the spot to the terminal price
\* it is passed, the result reports the path count, and one path has
\* standard error 0.
C8_PathAccounting ==
    MCOk =>
        /\ Len(mc.calls) = paths
        /\ Len(mc.draws) = paths * steps
        /\ \A i \in 1..Len(mc.calls) :
              /\ mc.calls[i].draws = steps
              /\ Len(mc.calls[i].path) = steps + 1
              /\ mc.calls[i].path[1] = spec.spot
              /\ mc.calls[i].path[steps + 1] = mc.calls[i].s
        /\ result.paths = paths
        /\ paths = 1 => result.standard_error = 0

\* A finished simulation of two paths of two steps.
C8_TwoPaths == MCOk /\ paths = 2 /\ steps = 2 /\ Len(mc.calls) = 2

\* C9: a European node holds the discounted expectation of its two
\* successors, an American node the larger of that and the payoff at the
\* node's price; so an American node is worth at least its exercise value.
Continuation(k, j) ==
    FMul(Exp(FMul(-model.rate, lat.dt)),
         FMul(lat.p, result.tree[k + 2][j + 2])
             + FMul(Scale - lat.p, result.tree[k + 2][j + 1]))

Intrinsic(k, j) ==
    Payoff(option, FMul(FMul(model.spot, FPow(lat.u, j)), FPow(lat.d, k - j)))

C9_BackwardInduction ==
    LatticeOk =>
        \A k \in 0..(steps - 1) : \A j \in 0..k :
            /\ ~option.american => result.tree[k + 1][j + 1] = Continuation(k, j)
            /\ option.american =>
                  /\ result.tree[k + 1][j + 1] = FMax(Continuation(k, j), Intrinsic(k, j))
                  /\ result.tree[k + 1][j + 1] >= Intrinsic(k, j)

\* An American lattice with a node where exercise beats continuation.
C9_EarlyExercise ==
    /\ LatticeOk /\ option.american /\ steps >= 2
    /\ \E k \in 0..(steps - 1) : \E j \in 0..k :
          Intrinsic(k, j) > Continuation(k, j)

\* C10: price_option returns a lattice or raises InvalidStepCount,
\* InvalidRiskNeutralProbability or InvalidContract, and nothing else.
C10_DocumentedOutcomes ==
    LatticeDone =>
        outcome \in {"ok", "InvalidStepCount", "InvalidRiskNeutralProbability",
                     "InvalidContract"}
====
